---------------------------- MODULE Spec2Model ----------------------------
(***************************************************************************)
(* A model of reporter.py: the Grafana dashboard query extractor, the      *)
(* Prometheus metric collector, the Gemini narrative generator, the        *)
(* Discord notifier, and the top-level run that chains them.               *)
(*                                                                         *)
(* Strings whose characters matter (target expressions, the narrative) are *)
(* sequences of characters; JSON values are records carrying a "kind" tag  *)
(* (absent key, null, dict, list, str, num).  A Python call either returns *)
(* or raises: [kind |-> "return", ...] or [kind |-> "raise", exc |-> ...]. *)
(***************************************************************************)
EXTENDS Integers, Sequences, FiniteSets, TLC

VARIABLES
    env,            \* the environment variables read at import (lines 22-36)
    response,       \* what requests.get on the Grafana API will produce
    pc,             \* position of the run
    http_gets,      \* number of requests.get calls issued
    extract_ret,    \* outcome of get_all_queries_from_grafana
    all_queries,    \* get_metrics: the extracted list
    qi,             \* get_metrics: number of items of all_queries consumed
    executed,       \* prom.custom_query calls: the query and what the call did
    report_data,    \* get_metrics: the accumulating report (a list of lines)
    metrics_data,   \* __main__: what get_metrics returned
    gemini_calls,   \* number of model.generate_content calls
    gemini_report,  \* __main__: what generate_report_with_gemini returned
    calls,          \* functions entered by __main__, in order
    report_content, \* send_to_discord: its argument
    chunks,         \* send_to_discord: the chunk list
    ci,             \* send_to_discord: number of chunks consumed
    posts,          \* requests.post calls: payload content and outcome
    printed,        \* what the fallback path printed
    exit_status     \* process exit status once the process has ended

vars == <<env, response, pc, http_gets, extract_ret, all_queries, qi, executed,
          report_data, metrics_data, gemini_calls, gemini_report, calls,
          report_content, chunks, ci, posts, printed, exit_status>>

\* ------------------------------------------------------------------------
\* Bounds of the model
\* ------------------------------------------------------------------------

\* panels of a dashboard in the ordering family
MaxPanels == 2
\* targets of a dashboard, summed over its panels
MaxTargets == 2
\* fragments an expression is concatenated from in the substitution family
MaxFrags == 3
\* queries handed to the collector when it is exercised on its own
MaxQueries == 3
\* chunks of the longest narrative handed to the notifier
MaxChunks == 2

\* ------------------------------------------------------------------------
\* Strings
\* ------------------------------------------------------------------------

None == "None"
SetValue == "set"
\* the values an environment variable can have: unset, empty, non-empty
EnvValues == {None, "", SetValue}
\* a faulty variant of the truthiness test: only an unset variable is falsy
IsSet(v) == v # None

\* Python truthiness of an environment value
Truthy(v) == v # None /\ v # ""

RangeToken == <<"$", "_", "_", "r", "a", "n", "g", "e">>
IntervalToken == <<"$", "_", "_", "i", "n", "t", "e", "r", "v", "a", "l">>
RangeLiteral == <<"2", "4", "h">>
IntervalLiteral == <<"5", "m">>

\* s[i:] with i counted from 0
Drop(s, n) == SubSeq(s, n + 1, Len(s))
StartsWith(s, t) == Len(s) >= Len(t) /\ SubSeq(s, 1, Len(t)) = t

\* a faulty variant of the replacement: only the first occurrence is replaced
ReplaceFirstOnly(s, old, new) ==
    LET hits == {i \in 1..Len(s) : StartsWith(Drop(s, i - 1), old)}
    IN  IF hits = {} THEN s
        ELSE LET i == CHOOSE j \in hits : \A k \in hits : j <= k
             IN  SubSeq(s, 1, i - 1) \o new \o Drop(s, i - 1 + Len(old))

\* str.replace(old, new): every non-overlapping occurrence, scanning from the left
RECURSIVE ReplaceFrom(_, _, _)
ReplaceFrom(s, old, new) ==
    IF Len(s) < Len(old) THEN s
    ELSE IF StartsWith(s, old) THEN new \o ReplaceFrom(Drop(s, Len(old)), old, new)
    ELSE <<Head(s)>> \o ReplaceFrom(Tail(s), old, new)

Replace(s, old, new) == ReplaceFrom(s, old, new)

\* query.replace('$__range', '24h').replace('$__interval', '5m')
SubstituteVariables(expr) ==
    Replace(Replace(expr, RangeToken, RangeLiteral), IntervalToken, IntervalLiteral)

\* ------------------------------------------------------------------------
\* JSON values of the dashboard response
\* ------------------------------------------------------------------------

NoExpr == [kind |-> "absent", s |-> <<>>]
StrExpr(s) == [kind |-> "str", s |-> s]
NumExpr == [kind |-> "num", s |-> <<>>]
Target(hide, expr) == [kind |-> "dict", hide |-> hide, expr |-> expr]
StrTarget == [kind |-> "str", hide |-> "absent", expr |-> NoExpr]

NoTargets == [kind |-> "absent", items |-> <<>>]
NullTargets == [kind |-> "null", items |-> <<>>]
TargetList(ts) == [kind |-> "list", items |-> ts]

NoDatasource == [kind |-> "absent", type |-> "absent"]
NullDatasource == [kind |-> "null", type |-> "absent"]
DictDatasource(t) == [kind |-> "dict", type |-> t]
StrDatasource == [kind |-> "str", type |-> "absent"]

AbsentTitle == "ABSENT"
\* the placeholder title of line 80
DefaultTitle == "untitled panel"
Panel(title, ds, targets) ==
    [kind |-> "dict", title |-> title, datasource |-> ds, targets |-> targets]
StrPanel == [kind |-> "str", title |-> AbsentTitle, datasource |-> NoDatasource,
             targets |-> NoTargets]

PanelList(ps) == [kind |-> "list", items |-> ps]
NoPanels == [kind |-> "absent", items |-> <<>>]
NullPanels == [kind |-> "null", items |-> <<>>]
DashboardDict(panels) == [kind |-> "dict", panels |-> panels]
NoDashboard == [kind |-> "absent", panels |-> NoPanels]
NullDashboard == [kind |-> "null", panels |-> NoPanels]
\* the parsed body: a JSON object, or some other JSON value (an array)
Body(dashboard) == [kind |-> "dict", dashboard |-> dashboard]
ListBody == [kind |-> "list", dashboard |-> NoDashboard]
Dashboard(ps) == Body(DashboardDict(PanelList(ps)))

\* requests.get: a network error, or a response with a status and a body
NetworkError == [kind |-> "neterr", status |-> 0, json |-> FALSE, data |-> ListBody]
HttpResponse(status, data) ==
    [kind |-> "http", status |-> status, json |-> TRUE, data |-> data]
NotJsonResponse(status) ==
    [kind |-> "http", status |-> status, json |-> FALSE, data |-> ListBody]


\* ------------------------------------------------------------------------
\* get_all_queries_from_grafana (lines 49-101)
\* ------------------------------------------------------------------------

Return(v) == [kind |-> "return", value |-> v, exc |-> "none"]
Raise(e) == [kind |-> "raise", value |-> <<>>, exc |-> e]

QueryItem(title, query) == [title |-> title, query |-> query]

\* panel.get('title', ...) of line 80
panel_title(panel) ==
    IF panel.title = AbsentTitle THEN DefaultTitle ELSE panel.title

\* panel.get('datasource', {}) of line 81: an absent key reads as an empty dict
datasource_info(panel) ==
    IF panel.datasource.kind = "absent" THEN DictDatasource("absent")
    ELSE panel.datasource

\* line 82
is_prometheus_panel(ds) ==
    (ds.kind = "dict" /\ ds.type = "prometheus") \/ ds.kind = "null"

\* a faulty variant of the target test: the hide flag is not read
TargetSelectedIgnoringHide(target) ==
    target.expr.kind # "absent" /\ (target.expr.kind = "str" => target.expr.s # <<>>)

\* line 86: not target.get('hide') and 'expr' in target and target.get('expr')
TargetSelected(target) ==
    /\ target.hide \in {"absent", "false"}
    /\ target.expr.kind # "absent"
    /\ (target.expr.kind = "str" => target.expr.s # <<>>)

\* a faulty variant of the target loop: a selected target is put in front of the list
RECURSIVE TargetLoopPrepending(_, _, _, _)
TargetLoopPrepending(title, targets, i, acc) ==
    IF i > Len(targets) THEN Return(acc)
    ELSE LET target == targets[i]
         IN  IF target.kind # "dict" THEN Raise("AttributeError")
             ELSE IF ~TargetSelected(target)
                  THEN TargetLoopPrepending(title, targets, i + 1, acc)
             ELSE IF target.expr.kind # "str" THEN Raise("AttributeError")
             ELSE TargetLoopPrepending(title, targets, i + 1,
                     <<QueryItem(title, SubstituteVariables(target.expr.s))>> \o acc)

\* lines 85-92: the loop over panel['targets'] from its i-th element on, with
\* queries_with_titles = acc; a non-dict target has no .get, a non-string
\* expression no .replace
RECURSIVE TargetLoop(_, _, _, _)
TargetLoop(title, targets, i, acc) ==
    IF i > Len(targets) THEN Return(acc)
    ELSE LET target == targets[i]
         IN  IF target.kind # "dict" THEN Raise("AttributeError")
             ELSE IF ~TargetSelected(target) THEN TargetLoop(title, targets, i + 1, acc)
             ELSE IF target.expr.kind # "str" THEN Raise("AttributeError")
             ELSE TargetLoop(title, targets, i + 1,
                     Append(acc, QueryItem(title, SubstituteVariables(target.expr.s))))

\* lines 79-92: the loop over panels from its i-th element on
RECURSIVE PanelLoop(_, _, _)
PanelLoop(panels, i, acc) ==
    IF i > Len(panels) THEN Return(acc)
    ELSE LET panel == panels[i]
         IN  IF panel.kind # "dict" THEN Raise("AttributeError")
             ELSE IF panel.targets.kind # "absent"
                     /\ is_prometheus_panel(datasource_info(panel))
                  THEN IF panel.targets.kind # "list" THEN Raise("TypeError")
                       ELSE LET r == TargetLoop(panel_title(panel),
                                               panel.targets.items, 1, acc)
                            IN  IF r.kind = "raise" THEN r
                                ELSE PanelLoop(panels, i + 1, r.value)
             ELSE PanelLoop(panels, i + 1, acc)

\* lines 76-94: from the parsed body to the returned list
ExtractQueries(dashboard_data) ==
    IF dashboard_data.kind # "dict" THEN Raise("AttributeError")
    ELSE LET dashboard == dashboard_data.dashboard
         IN  IF dashboard.kind = "null" THEN Raise("AttributeError")
             ELSE IF dashboard.kind = "absent" \/ dashboard.panels.kind = "absent"
                  THEN Return(<<>>)
             ELSE IF dashboard.panels.kind # "list" THEN Raise("TypeError")
             ELSE PanelLoop(dashboard.panels.items, 1, <<>>)

StatusOK == 200

\* lines 67-94: the body of the try block
TryBody(resp) ==
    IF resp.kind = "neterr" THEN Raise("RequestException")
    ELSE IF resp.status # StatusOK THEN Return(<<>>)
    ELSE IF ~resp.json THEN Raise("ValueError")
    ELSE ExtractQueries(resp.data)

\* lines 96-101: the two except clauses
Handled(exc) == exc \in {"RequestException", "ValueError"}

\* line 51
GrafanaConfigured(e, dashboard_uid) ==
    /\ Truthy(e.GRAFANA_URL)
    /\ Truthy(e.GRAFANA_API_KEY)
    /\ Truthy(e.GRAFANA_PUBLIC_DOMAIN)
    /\ Truthy(dashboard_uid)

get_all_queries_from_grafana(e, dashboard_uid, resp) ==
    IF ~GrafanaConfigured(e, dashboard_uid) THEN Return(<<>>)
    ELSE LET r == TryBody(resp)
         IN  IF r.kind = "raise" /\ Handled(r.exc) THEN Return(<<>>) ELSE r

\* ------------------------------------------------------------------------
\* Values of the collector, the generator and the notifier
\* ------------------------------------------------------------------------

\* a Python value that is None or a text
NoneValue == [kind |-> "None", text |-> <<>>]
Text(t) == [kind |-> "str", text |-> t]
\* truthiness of such a value: None and the empty text are falsy
TruthyText(v) == v.kind = "str" /\ v.text # <<>>

\* lines of the report text built by get_metrics
Line(kind, title, label, value) ==
    [kind |-> kind, title |-> title, label |-> label, value |-> value]
ReportHeader(uid) == Line("report_header", uid, <<>>, "")
SectionHeader(title) == Line("section", title, <<>>, "")
NoDataMarker == Line("no_data", "", <<>>, "")
QueryFailedMarker == Line("query_failed", "", <<>>, "")
UnknownErrorMarker == Line("unknown_error", "", <<>>, "")
SampleLine(label, value) == Line("sample", "", label, value)
BlankLine == Line("blank", "", <<>>, "")

\* the value strings of the series the model draws, with float() and :.2f applied
FloatTable == [v \in {"1.5", "2", "0.127"} |->
                  CASE v = "1.5" -> "1.50" [] v = "2" -> "2.00" [] OTHER -> "0.13"]
FloatParses(v) == v \in DOMAIN FloatTable
FormatFloat2(v) == FloatTable[v]

Series(labels, value) == [labels |-> labels, value |-> value]

\* line 130-132: the k="v" pieces of every label but __name__, or Total
label_str(labels) ==
    LET kept == SelectSeq(labels, LAMBDA kv : kv[1] # "__name__")
    IN  IF kept = <<>> THEN <<<<"Total">>>> ELSE kept

\* lines 127-137: the loop over the returned series from the i-th on; float()
\* of a value that is no number raises ValueError with the lines so far kept
RECURSIVE SeriesLoop(_, _, _)
SeriesLoop(metrics, i, acc) ==
    IF i > Len(metrics) THEN [lines |-> Append(acc, BlankLine), raised |-> FALSE]
    ELSE IF ~FloatParses(metrics[i].value) THEN [lines |-> acc, raised |-> TRUE]
    ELSE SeriesLoop(metrics, i + 1,
            Append(acc, SampleLine(label_str(metrics[i].labels),
                                   FormatFloat2(metrics[i].value))))

\* what prom.custom_query does for one query: it returns a list of series or raises
QueryReturns(metrics) == [kind |-> "return", metrics |-> metrics, exc |-> "none"]
QueryRaises(exc) == [kind |-> "raise", metrics |-> <<>>, exc |-> exc]

\* a faulty variant of the section body: the backend error ends the section list
\* by being reported as "no data"
SectionBodyMaskingFailure(outcome) ==
    IF outcome.kind = "raise" THEN <<NoDataMarker>>
    ELSE IF outcome.metrics = <<>> THEN <<NoDataMarker>>
    ELSE SeriesLoop(outcome.metrics, 1, <<>>).lines

\* lines 119-144: the lines one query adds after its section header
SectionBody(outcome) ==
    IF outcome.kind = "raise"
    THEN IF outcome.exc = "PrometheusApiClientException"
         THEN <<QueryFailedMarker>> ELSE <<UnknownErrorMarker>>
    ELSE IF outcome.metrics = <<>> THEN <<NoDataMarker>>
    ELSE LET r == SeriesLoop(outcome.metrics, 1, <<>>)
         IN  IF r.raised THEN Append(r.lines, UnknownErrorMarker) ELSE r.lines

ChunkSize == 1990

\* the multiples of the chunk size below n: range(0, n, 1990)
ChunkStarts(n) == {i \in 0..n : i % ChunkSize = 0 /\ i < n}

\* a faulty variant of the slicing: each chunk stops one character early
SliceShort(s, i) ==
    SubSeq(s, i + 1, IF i + ChunkSize - 1 < Len(s) THEN i + ChunkSize - 1 ELSE Len(s))

\* report_content[i:i + 1990]
Slice(s, i) ==
    SubSeq(s, i + 1, IF i + ChunkSize < Len(s) THEN i + ChunkSize ELSE Len(s))

\* line 192: the chunk list, in increasing order of the start index
Chunks(s) ==
    LET n == Cardinality(ChunkStarts(Len(s)))
    IN  [k \in 1..n |-> Slice(s, (k - 1) * ChunkSize)]

\* the fixed notices of generate_report_with_gemini (lines 153, 156, 181); their
\* characters are codes no generated narrative holds
NoKeyNotice == <<-1, -1, -1>>
NoMetricsNotice == <<-2, -2, -2>>
GeminiErrorNotice == <<-3, -3, -3>>

\* ------------------------------------------------------------------------
\* The run: import, __main__, get_metrics, generate_report_with_gemini,
\* send_to_discord
\* ------------------------------------------------------------------------

Running == "running"
ExitOK == "exit 0"
ExitError == "exit 1"

\* lines 40-46: the clients initialise, or the process exits with status 1
Startup ==
    /\ pc = "import"
    /\ \E init_ok \in BOOLEAN :
          IF init_ok THEN pc' = "main" /\ exit_status' = exit_status
          ELSE pc' = "exited" /\ exit_status' = ExitError
    /\ UNCHANGED <<env, response, http_gets, extract_ret, all_queries, qi, executed,
                   report_data, metrics_data, gemini_calls, gemini_report, calls,
                   report_content, chunks, ci, posts, printed>>

\* lines 204-208: the start banner, then the call of get_metrics
MainStart ==
    /\ pc = "main"
    /\ pc' = "gm_entry"
    /\ calls' = Append(calls, "get_metrics")
    /\ UNCHANGED <<env, response, http_gets, extract_ret, all_queries, qi, executed,
                   report_data, metrics_data, gemini_calls, gemini_report,
                   report_content, chunks, ci, posts, printed, exit_status>>

\* line 106: get_metrics calls get_all_queries_from_grafana(DASHBOARD_UID)
GetAllQueries ==
    /\ pc = "gm_entry"
    /\ extract_ret' = get_all_queries_from_grafana(env, env.DASHBOARD_UID, response)
    /\ http_gets' = IF GrafanaConfigured(env, env.DASHBOARD_UID)
                    THEN http_gets + 1 ELSE http_gets
    /\ pc' = "gm_extracted"
    /\ UNCHANGED <<env, response, all_queries, qi, executed, report_data,
                   metrics_data, gemini_calls, gemini_report, calls,
                   report_content, chunks, ci, posts, printed, exit_status>>

\* lines 106-112: an exception of the call is not caught anywhere up to the top
\* level, so the interpreter ends the process with status 1; an empty list
\* makes get_metrics return None; otherwise the report starts with its header
GetMetricsCheck ==
    /\ pc = "gm_extracted"
    /\ IF extract_ret.kind = "raise"
       THEN /\ pc' = "exited"
            /\ exit_status' = ExitError
            /\ UNCHANGED <<all_queries, report_data, metrics_data, qi>>
       ELSE /\ all_queries' = extract_ret.value
            /\ exit_status' = exit_status
            /\ qi' = 0
            /\ IF extract_ret.value = <<>>
               THEN /\ metrics_data' = NoneValue
                    /\ pc' = "main_branch"
                    /\ report_data' = report_data
               ELSE /\ report_data' = <<ReportHeader(env.DASHBOARD_UID)>>
                    /\ pc' = "gm_loop"
                    /\ metrics_data' = metrics_data
    /\ UNCHANGED <<env, response, http_gets, extract_ret, executed, gemini_calls,
                   gemini_report, calls, report_content, chunks, ci, posts, printed>>

\* the series lists prom.custom_query returns in the model
MetricResults ==
    { <<>>,
      <<Series(<<<<"__name__", "up">>, <<"job", "node">>>>, "1.5")>>,
      <<Series(<<<<"__name__", "up">>>>, "2"), Series(<<<<"job", "api">>>>, "0.127")>>,
      <<Series(<<<<"job", "api">>>>, "2"), Series(<<>>, "abc"), Series(<<>>, "2")>> }

QueryOutcomes ==
    {QueryReturns(m) : m \in MetricResults}
    \cup {QueryRaises("PrometheusApiClientException"), QueryRaises("ConnectionError")}

\* lines 114-144: one iteration of the loop over all_queries
RunQuery ==
    /\ pc = "gm_loop"
    /\ qi < Len(all_queries)
    /\ \E outcome \in QueryOutcomes :
          LET item == all_queries[qi + 1]
          IN  /\ executed' = Append(executed, [query |-> item.query, outcome |-> outcome])
              /\ report_data' = (report_data \o <<SectionHeader(item.title)>>)
                                    \o SectionBody(outcome)
    /\ qi' = qi + 1
    /\ UNCHANGED <<env, response, pc, http_gets, extract_ret, all_queries,
                   metrics_data, gemini_calls, gemini_report, calls,
                   report_content, chunks, ci, posts, printed, exit_status>>

\* line 146: return report_data
GetMetricsReturn ==
    /\ pc = "gm_loop"
    /\ qi = Len(all_queries)
    /\ metrics_data' = Text(report_data)
    /\ pc' = "main_branch"
    /\ UNCHANGED <<env, response, http_gets, extract_ret, all_queries, qi, executed,
                   report_data, gemini_calls, gemini_report, calls,
                   report_content, chunks, ci, posts, printed, exit_status>>

\* a faulty variant of the branch: the report is generated whatever get_metrics returned
MainBranchUnconditional ==
    /\ pc = "main_branch"
    /\ pc' = "generate"
    /\ calls' = Append(calls, "generate_report_with_gemini")
    /\ UNCHANGED <<env, response, http_gets, extract_ret, all_queries, qi, executed,
                   report_data, metrics_data, gemini_calls, gemini_report,
                   report_content, chunks, ci, posts, printed, exit_status>>

\* lines 210-218: if metrics_data: ... else: ...
MainBranch ==
    /\ pc = "main_branch"
    /\ IF TruthyText(metrics_data)
       THEN /\ pc' = "generate"
            /\ calls' = Append(calls, "generate_report_with_gemini")
       ELSE /\ pc' = "main_end"
            /\ calls' = calls
    /\ UNCHANGED <<env, response, http_gets, extract_ret, all_queries, qi, executed,
                   report_data, metrics_data, gemini_calls, gemini_report,
                   report_content, chunks, ci, posts, printed, exit_status>>

\* a narrative of n characters, each character its own position
Narrative(n) == [i \in 1..n |-> i]
\* a narrative of n characters that repeats a three-character pattern
Patterned(n) == [i \in 1..n |-> i % 3]

\* the texts the generative service returns in the model
GeneratedTexts == {Narrative(0), Narrative(3), Narrative(ChunkSize + 1)}

\* lines 149-181, then lines 214-215: the narrative, then the call of send_to_discord
GenerateReport ==
    /\ pc = "generate"
    /\ IF ~Truthy(env.GEMINI_API_KEY)
       THEN gemini_report' = NoKeyNotice /\ gemini_calls' = gemini_calls
       ELSE IF ~TruthyText(metrics_data)
       THEN gemini_report' = NoMetricsNotice /\ gemini_calls' = gemini_calls
       ELSE /\ gemini_calls' = gemini_calls + 1
            /\ \/ \E t \in GeneratedTexts : gemini_report' = t
               \/ gemini_report' = GeminiErrorNotice
    /\ pc' = "send_entry"
    /\ calls' = Append(calls, "send_to_discord")
    /\ UNCHANGED <<env, response, http_gets, extract_ret, all_queries, qi, executed,
                   report_data, metrics_data, report_content, chunks, ci, posts,
                   printed, exit_status>>

\* lines 184-192: without a webhook the content is printed and the function
\* returns; otherwise the chunk list is built
SendStart ==
    /\ pc = "send_entry"
    /\ report_content' = gemini_report
    /\ IF ~Truthy(env.DISCORD_WEBHOOK_URL)
       THEN /\ printed' = Append(printed, gemini_report)
            /\ pc' = "main_end"
            /\ UNCHANGED <<chunks, ci>>
       ELSE /\ chunks' = Chunks(gemini_report)
            /\ ci' = 0
            /\ pc' = "send_loop"
            /\ printed' = printed
    /\ UNCHANGED <<env, response, http_gets, extract_ret, all_queries, qi, executed,
                   report_data, metrics_data, gemini_calls, gemini_report, calls,
                   posts, exit_status>>

\* requests.post followed by raise_for_status: success, or a RequestException
\* (a connection error, a timeout, the HTTPError of a non-2xx status)
PostOutcomes == {"ok", "ConnectionError", "Timeout", "HTTPError"}

\* a faulty variant of the loop body: a failed POST abandons the remaining chunks
PostChunkStoppingOnFailure ==
    /\ pc = "send_loop"
    /\ ci < Len(chunks)
    /\ \E outcome \in PostOutcomes :
          /\ posts' = Append(posts, [content |-> chunks[ci + 1], outcome |-> outcome])
          /\ ci' = IF outcome = "ok" THEN ci + 1 ELSE Len(chunks)
    /\ UNCHANGED <<env, response, pc, http_gets, extract_ret, all_queries, qi,
                   executed, report_data, metrics_data, gemini_calls, gemini_report,
                   calls, report_content, chunks, printed, exit_status>>

\* lines 194-200: one iteration of the loop over chunks; the except clause
\* catches every outcome that is not "ok"
PostChunk ==
    /\ pc = "send_loop"
    /\ ci < Len(chunks)
    /\ \E outcome \in PostOutcomes :
          posts' = Append(posts, [content |-> chunks[ci + 1], outcome |-> outcome])
    /\ ci' = ci + 1
    /\ UNCHANGED <<env, response, pc, http_gets, extract_ret, all_queries, qi,
                   executed, report_data, metrics_data, gemini_calls, gemini_report,
                   calls, report_content, chunks, printed, exit_status>>

\* the end of the loop of line 194: send_to_discord returns
SendReturn ==
    /\ pc = "send_loop"
    /\ ci = Len(chunks)
    /\ pc' = "main_end"
    /\ UNCHANGED <<env, response, http_gets, extract_ret, all_queries, qi, executed,
                   report_data, metrics_data, gemini_calls, gemini_report, calls,
                   report_content, chunks, ci, posts, printed, exit_status>>

\* lines 220-222: the end banner; the script ends and the process exits with 0
MainEnd ==
    /\ pc = "main_end"
    /\ pc' = "exited"
    /\ exit_status' = ExitOK
    /\ UNCHANGED <<env, response, http_gets, extract_ret, all_queries, qi, executed,
                   report_data, metrics_data, gemini_calls, gemini_report, calls,
                   report_content, chunks, ci, posts, printed>>

\* ------------------------------------------------------------------------
\* Inputs: environments and Grafana responses
\* ------------------------------------------------------------------------

Env(url, key, domain, uid, webhook, gemini) ==
    [PROMETHEUS_URL |-> SetValue, DISCORD_WEBHOOK_URL |-> webhook,
     GEMINI_API_KEY |-> gemini, GRAFANA_URL |-> url, GRAFANA_API_KEY |-> key,
     GRAFANA_PUBLIC_DOMAIN |-> domain, DASHBOARD_UID |-> uid]

\* every Grafana setting present
ConfiguredEnv == Env(SetValue, SetValue, SetValue, SetValue, SetValue, SetValue)
\* every combination of the four Grafana settings
GrafanaEnvs ==
    {Env(a, b, c, d, SetValue, SetValue) :
        a \in EnvValues, b \in EnvValues, c \in EnvValues, d \in EnvValues}

\* "sum(rate($__range))"
ExampleExpr ==
    <<"s", "u", "m", "(", "r", "a", "t", "e", "(">> \o RangeToken \o <<")", ")">>
\* "up[$__interval]"
OtherExpr == <<"u", "p", "[">> \o IntervalToken \o <<"]">>

\* every hide flag with every expression field
TargetChoices ==
    { Target(h, e) :
         h \in {"absent", "false", "true"},
         e \in {NoExpr, StrExpr(<<>>), StrExpr(ExampleExpr), StrExpr(OtherExpr)} }

Datasources ==
    { NoDatasource, NullDatasource, DictDatasource("prometheus"),
      DictDatasource("loki"), DictDatasource("absent"), StrDatasource }

Titles == {AbsentTitle, "CPU"}

Visible(e) == Target("false", StrExpr(e))
Hidden(e) == Target("true", StrExpr(e))

\* the panels of the dashboards of several panels
PanelChoices ==
    { Panel(h[1], h[2], tl) :
         h \in { <<"CPU", NoDatasource>>, <<"Mem", NullDatasource>>,
                 <<AbsentTitle, DictDatasource("prometheus")>>,
                 <<"Disk", DictDatasource("loki")>> },
         tl \in { NoTargets, TargetList(<<>>),
                  TargetList(<<Visible(ExampleExpr)>>),
                  TargetList(<<Visible(OtherExpr), Visible(ExampleExpr)>>),
                  TargetList(<<Hidden(OtherExpr), Target("absent", StrExpr(OtherExpr))>>),
                  TargetList(<<Visible(ExampleExpr), Target("false", NoExpr),
                               Visible(OtherExpr)>>) } }

OK(data) == HttpResponse(StatusOK, data)

Fragments ==
    { RangeToken, IntervalToken, <<"$">>, <<"$", "_", "_">>, <<"_">>,
      <<"r", "a", "n", "g", "e">>, <<"i", "n", "t", "e", "r", "v", "a", "l">>,
      RangeLiteral, IntervalLiteral, <<"x">> }

\* the concatenation of a list of strings
RECURSIVE Concat(_)
Concat(ss) == IF ss = <<>> THEN <<>> ELSE Head(ss) \o Concat(Tail(ss))

SingleTarget(e) ==
    OK(Dashboard(<<Panel("CPU", DictDatasource("prometheus"),
                         TargetList(<<Visible(e)>>))>>))

GoodPanel ==
    Panel("CPU", NullDatasource, TargetList(<<Target("false", StrExpr(ExampleExpr))>>))
PromPanel(targets) == Panel("Mem", DictDatasource("prometheus"), targets)

\* JSON bodies that parse but lack the dashboard/panels/targets structure, and
\* the bodies next to them that the code reads without error
StructureFamily ==
    { OK(ListBody), OK(Body(NullDashboard)), OK(Body(NoDashboard)),
      OK(Body(DashboardDict(NullPanels))), OK(Body(DashboardDict(NoPanels))),
      OK(Dashboard(<<StrPanel>>)), OK(Dashboard(<<GoodPanel, StrPanel>>)),
      OK(Dashboard(<<PromPanel(NullTargets)>>)),
      OK(Dashboard(<<Panel("Logs", DictDatasource("loki"), NullTargets)>>)),
      OK(Dashboard(<<GoodPanel, PromPanel(TargetList(<<StrTarget>>))>>)),
      OK(Dashboard(<<PromPanel(TargetList(<<Target("false", NumExpr)>>))>>)),
      OK(Dashboard(<<PromPanel(TargetList(<<Target("true", NumExpr)>>))>>)) }

\* failures of the transport: no response, an error status, a body that is not JSON
TransportFamily ==
    { NetworkError, NotJsonResponse(StatusOK), NotJsonResponse(502),
      HttpResponse(404, Dashboard(<<GoodPanel>>)), HttpResponse(500, ListBody),
      OK(Dashboard(<<GoodPanel>>)) }

Unset == [kind |-> "unset", value |-> <<>>, exc |-> "none"]
UnsetText == [kind |-> "unset", text |-> <<>>]

\* the state of a process that has read its environment and nothing else
Fresh(e, r, at) ==
    /\ env = e
    /\ response = r
    /\ pc = at
    /\ http_gets = 0
    /\ extract_ret = Unset
    /\ all_queries = <<>>
    /\ qi = 0
    /\ executed = <<>>
    /\ report_data = <<>>
    /\ metrics_data = UnsetText
    /\ gemini_calls = 0
    /\ gemini_report = <<>>
    /\ calls = <<>>
    /\ report_content = <<>>
    /\ chunks = <<>>
    /\ ci = 0
    /\ posts = <<>>
    /\ printed = <<>>
    /\ exit_status = Running

\* ------------------------------------------------------------------------
\* The extractor on its own: every family of responses
\* ------------------------------------------------------------------------

\* failures of the transport and bodies without the expected structure, under
\* every combination of the four Grafana settings
InitTransport ==
    \E e \in GrafanaEnvs, r \in TransportFamily \cup StructureFamily :
       Fresh(e, r, "gm_entry")

\* well-formed dashboards of at most MaxPanels panels
InitOrdering ==
    \E n \in 0..MaxPanels : \E ps \in [1..n -> PanelChoices] :
       Fresh(ConfiguredEnv, OK(Dashboard(ps)), "gm_entry")

\* one panel of every title and datasource, with no targets field or with a
\* list of at most MaxTargets targets
InitQualifying ==
    \E t \in Titles, ds \in Datasources :
       \/ Fresh(ConfiguredEnv, OK(Dashboard(<<Panel(t, ds, NoTargets)>>)), "gm_entry")
       \/ \E n \in 0..MaxTargets : \E ts \in [1..n -> TargetChoices] :
             Fresh(ConfiguredEnv, OK(Dashboard(<<Panel(t, ds, TargetList(ts))>>)),
                   "gm_entry")

\* one Prometheus panel with one visible target whose expression is a
\* concatenation of at most MaxFrags fragments
InitSubstitution ==
    \E n \in 0..MaxFrags : \E fs \in [1..n -> Fragments] :
       Fresh(ConfiguredEnv, SingleTarget(Concat(fs)), "gm_entry")

InitExtract == InitTransport \/ InitOrdering \/ InitQualifying \/ InitSubstitution

NextExtract == GetAllQueries

SpecExtract == InitExtract /\ [][NextExtract]_vars

\* ------------------------------------------------------------------------
\* The collector on its own
\* ------------------------------------------------------------------------

\* two qualifying panels sharing at most MaxQueries visible targets
InitMetrics ==
    \E n \in 0..MaxQueries : \E es \in [1..n -> {ExampleExpr, OtherExpr}] :
       \E k \in 0..n :
          Fresh(ConfiguredEnv,
                OK(Dashboard(<<
                    Panel("CPU", DictDatasource("prometheus"),
                          TargetList([i \in 1..k |-> Visible(es[i])])),
                    Panel("Mem", NullDatasource,
                          TargetList([i \in 1..(n - k) |-> Visible(es[k + i])])) >>)),
                "gm_entry")

NextMetrics == GetAllQueries \/ GetMetricsCheck \/ RunQuery \/ GetMetricsReturn

SpecMetrics == InitMetrics /\ [][NextMetrics]_vars

\* ------------------------------------------------------------------------
\* The notifier on its own
\* ------------------------------------------------------------------------

\* narrative lengths around every multiple of the chunk size up to MaxChunks
NarrativeLengths ==
    {0, 1, 2} \cup
    { n \in { k * ChunkSize + d : k \in 1..MaxChunks, d \in {-1, 0, 1} } :
         n <= MaxChunks * ChunkSize }

Narratives ==
    {Narrative(n) : n \in NarrativeLengths} \cup {Patterned(n) : n \in NarrativeLengths}

\* send_to_discord is entered with a narrative, under every webhook setting
InitDiscord ==
    \E webhook \in EnvValues, text \in Narratives :
       /\ env = Env(SetValue, SetValue, SetValue, SetValue, webhook, SetValue)
       /\ response = NetworkError
       /\ pc = "send_entry"
       /\ http_gets = 0
       /\ extract_ret = Unset
       /\ all_queries = <<>>
       /\ qi = 0
       /\ executed = <<>>
       /\ report_data = <<>>
       /\ metrics_data = UnsetText
       /\ gemini_calls = 0
       /\ gemini_report = text
       /\ calls = <<"send_to_discord">>
       /\ report_content = <<>>
       /\ chunks = <<>>
       /\ ci = 0
       /\ posts = <<>>
       /\ printed = <<>>
       /\ exit_status = Running

NextDiscord == SendStart \/ PostChunk \/ SendReturn

SpecDiscord == InitDiscord /\ [][NextDiscord]_vars

\* ------------------------------------------------------------------------
\* The whole run
\* ------------------------------------------------------------------------

TwoPanels ==
    <<GoodPanel, PromPanel(TargetList(<<Visible(OtherExpr), Hidden(ExampleExpr)>>))>>

RunResponses ==
    { NetworkError, HttpResponse(500, ListBody), NotJsonResponse(StatusOK),
      OK(ListBody), OK(Dashboard(<<PromPanel(NullTargets)>>)),
      OK(Dashboard(<<>>)), OK(Dashboard(<<GoodPanel>>)), OK(Dashboard(TwoPanels)) }

RunEnvs ==
    { Env(url, SetValue, SetValue, SetValue, webhook, gemini) :
         url \in {None, SetValue}, webhook \in EnvValues, gemini \in {None, SetValue} }

Init == \E e \in RunEnvs, r \in RunResponses : Fresh(e, r, "import")

Next ==
    \/ Startup
    \/ MainStart
    \/ GetAllQueries
    \/ GetMetricsCheck
    \/ RunQuery
    \/ GetMetricsReturn
    \/ MainBranch
    \/ GenerateReport
    \/ SendStart
    \/ PostChunk
    \/ SendReturn
    \/ MainEnd

Spec == Init /\ [][Next]_vars

\* ------------------------------------------------------------------------
\* Properties of the extractor
\* ------------------------------------------------------------------------

Contains(s, tok) == \E i \in 1..Len(s) : StartsWith(Drop(s, i - 1), tok)

\* the four Grafana settings (endpoint, credential, public hostname, dashboard
\* id) are all non-empty
GrafanaSettingsPresent ==
    \A v \in {env.GRAFANA_URL, env.GRAFANA_API_KEY, env.GRAFANA_PUBLIC_DOMAIN,
              env.DASHBOARD_UID} : v \notin {None, ""}

\* the call of get_all_queries_from_grafana has ended
Extracted == extract_ret.kind # "unset"

PanelsOf(r) == r.data.dashboard.panels.items

WellFormedTarget(t) == t.kind = "dict" /\ t.expr.kind \in {"absent", "str"}
WellFormedPanel(p) ==
    /\ p.kind = "dict"
    /\ p.targets.kind \in {"absent", "list"}
    /\ \A j \in 1..Len(p.targets.items) : WellFormedTarget(p.targets.items[j])
\* a 200 response whose body is JSON with the dashboard/panels/targets structure
WellFormedDashboard(r) ==
    /\ r.kind = "http" /\ r.status = StatusOK /\ r.json
    /\ r.data.kind = "dict"
    /\ r.data.dashboard.kind = "dict"
    /\ r.data.dashboard.panels.kind = "list"
    /\ \A i \in 1..Len(PanelsOf(r)) : WellFormedPanel(PanelsOf(r)[i])

\* a target that is not hidden and has a non-empty expression
Wanted(t) == t.hide # "true" /\ t.expr.kind = "str" /\ t.expr.s # <<>>

\* a datasource that is null or an object of type prometheus; whether an
\* absent datasource field qualifies too is the parameter absentQualifies
QualifyingDatasource(ds, absentQualifies) ==
    \/ ds.kind = "null"
    \/ ds.kind = "dict" /\ ds.type = "prometheus"
    \/ ds.kind = "absent" /\ absentQualifies

\* the items a panel owes to the output: one per wanted target, in target order
PanelItems(p, absentQualifies) ==
    IF p.targets.kind = "list" /\ QualifyingDatasource(p.datasource, absentQualifies)
    THEN LET sel == SelectSeq(p.targets.items, Wanted)
         IN  [j \in 1..Len(sel) |->
                 QueryItem(IF p.title = AbsentTitle THEN DefaultTitle ELSE p.title,
                           SubstituteVariables(sel[j].expr.s))]
    ELSE <<>>

\* the items a panel list owes to the output, in panel order
ExpectedItems(panels, absentQualifies) ==
    Concat([i \in 1..Len(panels) |-> PanelItems(panels[i], absentQualifies)])

C2_AbsentDatasourceQualifies ==
    (Extracted /\ GrafanaSettingsPresent
        /\ WellFormedDashboard(response))
    => /\ extract_ret.kind = "return"
       /\ extract_ret.value = ExpectedItems(PanelsOf(response), TRUE)

\* the response lacks what the extractor needs: transport, status, JSON, structure
FailedResponse(r) == ~WellFormedDashboard(r)

\* C5: get_all_queries_from_grafana never raises; on missing configuration, a
\* non-200 status, a network error, a body that is not JSON, or JSON without
\* the dashboard/panels/targets structure, it returns the empty list.
C5_NeverRaises ==
    Extracted
    => /\ extract_ret.kind = "return"
       /\ (~GrafanaSettingsPresent \/ FailedResponse(response))
             => extract_ret.value = <<>>

\* both tokens replaced where they stand, in one pass from the left
RECURSIVE SubstituteInOnePass(_)
SubstituteInOnePass(s) ==
    IF s = <<>> THEN <<>>
    ELSE IF StartsWith(s, RangeToken)
    THEN RangeLiteral \o SubstituteInOnePass(Drop(s, Len(RangeToken)))
    ELSE IF StartsWith(s, IntervalToken)
    THEN IntervalLiteral \o SubstituteInOnePass(Drop(s, Len(IntervalToken)))
    ELSE <<Head(s)>> \o SubstituteInOnePass(Tail(s))

\* C9: no stored query holds the token $__range or the token $__interval; each
\* stored query is a target expression with every occurrence of the two tokens
\* replaced by 24h and 5m where it stood, so that the two successive
\* replacements created no occurrence.
C9_NoPlaceholderLeft ==
    (Extracted /\ extract_ret.kind = "return")
    => \A i \in 1..Len(extract_ret.value) :
          LET q == extract_ret.value[i].query
          IN  /\ ~Contains(q, RangeToken)
              /\ ~Contains(q, IntervalToken)
              /\ \E p \in 1..Len(PanelsOf(response)) :
                    \E t \in 1..Len(PanelsOf(response)[p].targets.items) :
                       LET target == PanelsOf(response)[p].targets.items[t]
                       IN  target.expr.kind = "str"
                           /\ q = SubstituteInOnePass(target.expr.s)

\* an expression holding $__range twice and $__interval was stored
C9_Witness ==
    /\ Extracted /\ extract_ret.kind = "return" /\ Len(extract_ret.value) = 1
    /\ response = SingleTarget(RangeToken \o IntervalToken \o RangeToken)
    /\ extract_ret.value[1].query = RangeLiteral \o IntervalLiteral \o RangeLiteral

\* ------------------------------------------------------------------------
\* Properties of the collector
\* ------------------------------------------------------------------------

\* get_metrics has returned
MetricsReturned == metrics_data.kind # "unset"

\* the positions of the section headers of a report, in increasing order
HeaderPositions(lines) ==
    SelectSeq([i \in 1..Len(lines) |-> i], LAMBDA i : lines[i].kind = "section")

\* the lines of the k-th section, after its header
SectionLines(lines, k) ==
    LET hp == HeaderPositions(lines)
    IN  SubSeq(lines, hp[k] + 1, IF k < Len(hp) THEN hp[k + 1] - 1 ELSE Len(lines))

\* C3: every query is executed exactly once, in extraction order, whatever the
\* earlier queries did; the returned text has exactly one section header per
\* query, in that order; the section of a query with an empty result is the
\* "no data" marker and the section of a query that raised the backend
\* exception is the "query failed" marker.
C3_FailureIsolatedPerQuery ==
    /\ Len(executed) = qi
    /\ qi <= Len(all_queries)
    /\ \A i \in 1..Len(executed) : executed[i].query = all_queries[i].query
    /\ (MetricsReturned /\ extract_ret.value # <<>>) =>
          /\ metrics_data.kind = "str"
          /\ Len(executed) = Len(all_queries)
          /\ all_queries = extract_ret.value
          /\ LET text == metrics_data.text
                 hp == HeaderPositions(text)
             IN  /\ Len(hp) = Len(all_queries)
                 /\ \A i \in 1..Len(hp) :
                       /\ text[hp[i]] = SectionHeader(all_queries[i].title)
                       /\ executed[i].outcome = QueryReturns(<<>>)
                             => SectionLines(text, i) = <<NoDataMarker>>
                       /\ executed[i].outcome = QueryRaises("PrometheusApiClientException")
                             => SectionLines(text, i) = <<QueryFailedMarker>>

\* the first query raised the backend exception, the second another exception,
\* and a third query returned no data: all three have their section
C3_Witness ==
    /\ MetricsReturned /\ metrics_data.kind = "str"
    /\ Len(executed) = 3
    /\ executed[1].outcome = QueryRaises("PrometheusApiClientException")
    /\ executed[2].outcome = QueryRaises("ConnectionError")
    /\ executed[3].outcome = QueryReturns(<<>>)
    /\ all_queries[1].title # all_queries[3].title
    /\ Len(HeaderPositions(metrics_data.text)) = 3

\* ------------------------------------------------------------------------
\* Properties of the notifier
\* ------------------------------------------------------------------------

SendEntered == pc \notin {"import", "main", "gm_entry", "gm_extracted", "gm_loop",
                          "main_branch", "generate", "send_entry"}
                 /\ Len(calls) > 0 /\ calls[Len(calls)] = "send_to_discord"
\* send_to_discord has returned
SendReturned == SendEntered /\ pc \in {"main_end", "exited"}

\* a webhook URL is configured
WebhookConfigured == env.DISCORD_WEBHOOK_URL \notin {None, ""}

PostedContents == [i \in 1..Len(posts) |-> posts[i].content]

\* C4: with a webhook configured, a narrative of length L is sent in exactly
\* ceil(L / 1990) POST calls, every chunk has at most 1990 characters and every
\* chunk but the last exactly 1990, and the chunks concatenated in posting
\* order are the narrative.
C4_ChunksReconstructNarrative ==
    (SendReturned /\ WebhookConfigured) =>
       /\ report_content = gemini_report
       /\ Len(posts) = (Len(report_content) + 1989) \div 1990
       /\ \A i \in 1..Len(posts) :
             /\ Len(posts[i].content) <= 1990
             /\ i < Len(posts) => Len(posts[i].content) = 1990
       /\ Concat(PostedContents) = report_content

\* a narrative one character longer than a chunk went out in two POSTs
C4_Witness ==
    /\ SendReturned /\ WebhookConfigured
    /\ Len(report_content) = 1991
    /\ Len(posts) = 2
    /\ Len(posts[2].content) = 1

\* C6: whatever POSTs fail, every chunk is attempted exactly once, in order,
\* with no retry, and send_to_discord returns normally.
C6_FailedPostDoesNotStopLater ==
    (pc = "send_loop" \/ (SendReturned /\ WebhookConfigured)) =>
       /\ Len(posts) = ci
       /\ ci <= Len(chunks)
       /\ \A i \in 1..Len(posts) : posts[i].content = chunks[i]
       /\ pc = "send_loop" => exit_status = Running
       /\ SendReturned => Len(posts) = Len(chunks)
       /\ (SendReturned /\ pc = "exited") => exit_status = ExitOK

\* the first of two POSTs failed and the second was attempted before returning
C6_Witness ==
    /\ SendReturned
    /\ Len(chunks) = 2 /\ Len(posts) = 2
    /\ posts[1].outcome = "HTTPError"
    /\ posts[2].outcome = "ok"
    /\ posts[1].content # posts[2].content

\* C10: with the webhook URL unset or empty, send_to_discord issues no POST,
\* prints the narrative on the fallback path, and returns without error.
C10_NoWebhookNoPost ==
    ~WebhookConfigured =>
       /\ posts = <<>>
       /\ pc # "send_loop"
       /\ SendEntered => (SendReturned /\ printed = <<gemini_report>>)
       /\ ~SendEntered => printed = <<>>
       /\ (SendEntered /\ pc = "exited") => exit_status = ExitOK

\* an empty webhook URL and a narrative longer than one chunk, printed
C10_Witness ==
    /\ env.DISCORD_WEBHOOK_URL = ""
    /\ SendReturned
    /\ Len(gemini_report) > 1990
    /\ printed = <<gemini_report>>

\* ------------------------------------------------------------------------
\* Properties of the run
\* ------------------------------------------------------------------------

MainSequence == <<"get_metrics", "generate_report_with_gemini", "send_to_discord">>

\* the end banner has been printed and the script has ended
ReachedEnd == pc = "exited" /\ exit_status = ExitOK

\* C7: the run is collect, then generate, then notify: generate is invoked at
\* most once and only after get_metrics returned a non-empty text, notify at
\* most once and only after generate; a run that reaches its end has skipped
\* generate and notify if and only if get_metrics returned no data, which is
\* exactly when extraction returned an empty list.
C7_CollectGenerateNotify ==
    /\ Len(calls) <= 3
    /\ calls = SubSeq(MainSequence, 1, Len(calls))
    /\ gemini_calls <= 1
    /\ Len(calls) >= 2 => (metrics_data.kind = "str" /\ metrics_data.text # <<>>)
    /\ gemini_calls = 1 => Len(calls) = 3
    /\ MetricsReturned =>
          /\ extract_ret.kind = "return"
          /\ metrics_data = NoneValue <=> extract_ret.value = <<>>
    /\ (pc = "main_end" \/ ReachedEnd) =>
          /\ MetricsReturned
          /\ Len(calls) \in {1, 3}
          /\ Len(calls) = 1 <=> metrics_data = NoneValue

\* a run that went through all three stages and posted, to its end
C7_Witness ==
    /\ ReachedEnd
    /\ calls = MainSequence
    /\ gemini_calls = 1
    /\ Len(posts) = 2

\* C8: once the clients have initialised, every run reaches the end banner and
\* exits with status 0, whatever fails in extraction, query execution,
\* narrative generation or delivery.
C8_AlwaysExitsZero ==
    (pc = "exited" /\ calls # <<>>) => exit_status = ExitOK

=============================================================================
